---------------------------- MODULE Spec2Model ----------------------------
(***************************************************************************)
(* Community Water Access Scheduler (src/cwas.py): the slot and booking    *)
(* allocation engine as a state machine over the SQLite store.             *)
(*                                                                         *)
(* Every session (one process of the program, one logged-in user) works    *)
(* on the same database file.  The store is opened in WAL mode: a reader   *)
(* sees the last committed state, one connection at a time holds the       *)
(* write lock, and a write transaction's changes are visible to the other  *)
(* sessions only once it commits.  `db` is the committed state; `lock`     *)
(* names the session whose write transaction is open across a prompt and   *)
(* `tx` holds that transaction's uncommitted working copy.                 *)
(*                                                                         *)
(* A handler's statements that run between two prompts without an          *)
(* intervening commit form one step, except that a SELECT made before the  *)
(* handler's write transaction begins is a step of its own: it runs in     *)
(* autocommit mode and another session may commit before the write.        *)
(* A writer that finds the write lock held waits for busy_timeout (8 s);   *)
(* a transaction that runs to its                                          *)
(* commit without waiting for input ends long before that, so the wait     *)
(* times out only when the holder sits at a prompt with its transaction    *)
(* open.                                                                   *)
(*                                                                         *)
(* Money is counted in 1/100 cent so that (water_amount / 100) * price is  *)
(* an integer: amount = water_amount * price-in-cents.                     *)
(***************************************************************************)
EXTENDS Integers, Sequences, FiniteSets, TLC

\* ------------------------------------------------------------------ bounds

\* add_funds may be repeated for ever: the deposits modelled are those that
\* keep the households' funds within the funds they registered with plus
\* MaxDeposits deposits, and no more than MaxDeposits + 1 of them.
MaxDeposits == 0

\* Notification rows modelled (every committed review adds one).
MaxNotifications == 2

\* ------------------------------------------------------- program constants

max_attempts == 3

\* timedelta(minutes=60): the length of a generated slot, in minutes.
SlotMinutes == 60

MinutesPerDay == 1440

\* Balance a registered household starts with: 50.00 dollars.
InitBalance == 500000

\* price_per_100L default 0.05 dollars, in cents.
DefaultPrice == 5

\* ------------------------------------------------------------- input sets

Households == {"h1", "h2"}

HouseholdSessions == {"p1", "p2"}

CoordinatorSessions == {"c1"}

NoSession == "none"

Dates == {"D1"}

\* Liters a household may type at "Estimated water amount".
WaterAmounts == {100}

PaymentMethods == {"mobile", "cash"}

\* Amounts typed at "Enter amount to add", in 1/100 cent.
DepositAmounts == {-500, 0, 500}

\* capacity_per_hour values a coordinator gave the source when adding it.
Capacities == {1, 2}

\* Liters typed by a household that fills a tank: the cost at the default
\* price, 100.00 dollars, is more than the balance it registered with.
LargeWaterAmounts == {200000}

\* Prices per 100 L an administrator may type, in cents.
Prices == {5, 10}

\* Amounts a coordinator may type at "New balance", in 1/100 cent.
NewBalances == {0}

AdminSessions == {"a1"}

\* The source names in use, in the order of SQLite's text comparison.
SourceNames == <<"Well-A", "Well-B">>

\* The household sessions at work while the accounts are looked at.
LedgerSessions == {"p1"}

VARIABLES db, lock, tx, current_user, hs, cs

vars == <<db, lock, tx, current_user, hs, cs>>

\* --------------------------------------------------------------- helpers

Ids(seq) == 1..Len(seq)

\* datetime.time() of a datetime counted in minutes from the date's midnight.
TimeOfDay(t) == t % MinutesPerDay

\* The users row of a household (register_user / add_household create it in
\* the transaction that creates the household).
UserOf(h) == h

\* ---------------------------------------------------------------- schema

\* The CHECK constraints of time_slots.
SlotCheckMutant(row) == row.max_households > 0 /\ row.end_time > row.start_time

SlotCheck(row) ==
    /\ row.max_households > 0
    /\ row.current_bookings >= 0
    /\ row.current_bookings <= row.max_households
    /\ row.end_time > row.start_time

\* UNIQUE(source_id, slot_date, start_time, end_time) of time_slots.
SlotKeyTakenMutant(slots, row) == FALSE

SlotKeyTaken(slots, row) ==
    \E i \in Ids(slots) :
        /\ slots[i].source_id = row.source_id
        /\ slots[i].slot_date = row.slot_date
        /\ slots[i].start_time = row.start_time
        /\ slots[i].end_time = row.end_time

\* CHECK (water_amount_collected IS NULL OR water_amount_collected > 0).
BookingCheck(row) == row.water_amount_collected > 0

\* UNIQUE(household_id, slot_id) of bookings: whatever the rows' status.
BookingKeyTakenMutant(bookings, household_id, slot_id) == FALSE

BookingKeyTaken(bookings, household_id, slot_id) ==
    \E i \in Ids(bookings) :
        /\ bookings[i].household_id = household_id
        /\ bookings[i].slot_id = slot_id

\* UNIQUE receipt_number of receipts.  create_booking and review_bookings
\* build the number as "WS" + date + booking_id: one number per booking.
ReceiptNumber(booking_id) == booking_id

ReceiptNumberTakenMutant(receipts, number) == FALSE

ReceiptNumberTaken(receipts, number) ==
    \E r \in receipts : r.receipt_number = number

\* ------------------------------------------------------- slot generation

NewSlot(source_id, date, start, end, capacity) ==
    [source_id |-> source_id, slot_date |-> date, start_time |-> start,
     end_time |-> end, max_households |-> capacity, current_bookings |-> 0,
     status |-> "available"]

\* (A variant that ignores only the UNIQUE key.)
InsertOrIgnoreSlotMutant(slots, row) ==
    IF ~SlotKeyTaken(slots, row)
    THEN [time_slots |-> Append(slots, row), rowcount |-> 1]
    ELSE [time_slots |-> slots, rowcount |-> 0]

\* INSERT OR IGNORE INTO time_slots: a row that breaks a CHECK or the UNIQUE
\* key is skipped.  The result is the table and the statement's rowcount.
InsertOrIgnoreSlot(slots, row) ==
    IF SlotCheck(row) /\ ~SlotKeyTaken(slots, row)
    THEN [time_slots |-> Append(slots, row), rowcount |-> 1]
    ELSE [time_slots |-> slots, rowcount |-> 0]

\* The while loop of generate_time_slots.  current_time and end_datetime are
\* minutes from the target date's midnight; end_time is the time of day.
\* The result is the table, the count the handler prints and the number of
\* INSERT statements the loop ran.
RECURSIVE GenerateLoop(_, _, _, _, _, _, _)
GenerateLoop(slots, source_id, date, current_time, end_time, capacity, slots_created) ==
    IF current_time < end_time
    THEN LET slot_end == current_time + SlotMinutes
         IN  IF TimeOfDay(slot_end) > end_time
             THEN [time_slots |-> slots, slots_created |-> slots_created,
                   inserts |-> 0]
             ELSE LET ins == InsertOrIgnoreSlot(slots,
                                NewSlot(source_id, date, TimeOfDay(current_time),
                                        TimeOfDay(slot_end), capacity))
                      rest == GenerateLoop(ins.time_slots, source_id, date,
                                           slot_end, end_time, capacity,
                                           slots_created + ins.rowcount)
                  IN  [rest EXCEPT !.inserts = @ + 1]
    ELSE [time_slots |-> slots, slots_created |-> slots_created, inserts |-> 0]

\* ----------------------------------------------------------- availability

\* (A variant without the priority rule.)
AdmitsMutant(priority_access, priority) == TRUE

\* ws.priority_access = 'all' OR ws.priority_access LIKE '%priority%'
Admits(priority_access, priority) ==
    "all" \in priority_access \/ priority \in priority_access

\* The WHERE clause of get_available_slots.
Offerable(d, slot_id, date, priority) ==
    LET ts == d.time_slots[slot_id]
        ws == d.water_sources[ts.source_id]
    IN  /\ ts.slot_date = date
        /\ ts.status = "available"
        /\ ts.current_bookings < ts.max_households
        /\ ws.status = "active"
        /\ Admits(ws.priority_access, priority)

\* ORDER BY ws.source_name, ts.start_time: slot i comes before slot j.  Names
\* compare as their places in SourceNames; start times are zero-padded
\* HH:MM texts, which compare as the times do.  Rows that tie come out in
\* the order of the scan of time_slots, by slot_id.
NamePlace(name) == CHOOSE k \in Ids(SourceNames) : SourceNames[k] = name

\* (A variant in the order of the slot ids.)
ComesBeforeMutant(d, i, j) == i < j

ComesBefore(d, i, j) ==
    LET ni == NamePlace(d.water_sources[d.time_slots[i].source_id].source_name)
        nj == NamePlace(d.water_sources[d.time_slots[j].source_id].source_name)
        si == d.time_slots[i].start_time
        sj == d.time_slots[j].start_time
    IN  \/ ni < nj
        \/ ni = nj /\ si < sj
        \/ ni = nj /\ si = sj /\ i < j

\* The rows of a set of slots in that order.
RECURSIVE OrderBy(_, _)
OrderBy(d, S) ==
    IF S = {} THEN <<>>
    ELSE LET first == CHOOSE i \in S : \A j \in S \ {i} : ComesBefore(d, i, j)
         IN  <<first>> \o OrderBy(d, S \ {first})

\* The slot ids of the rows get_available_slots returns for a date and a
\* household, in the order it returns them.
get_available_slots(d, date, household_id) ==
    OrderBy(d, {i \in Ids(d.time_slots) :
                   Offerable(d, i, date, d.households[household_id].priority_level)})

\* ---------------------------------------------------- booking statements

\* What the committed statements did for a booking so far: the number of
\* status writes to approved, whether a status write to denied happened, the
\* number of slot increments and of balance debits.
NoAudit == [approvals |-> 0, denied |-> FALSE, increments |-> 0, debits |-> 0]

\* (A variant that takes the slot's place when the request is made.)
CreateTxnMutant(d, household_id, slot_id, water_amount, estimated_cost, payment_method) ==
    LET row == [household_id |-> household_id, slot_id |-> slot_id,
                booking_status |-> "pending", collection_status |-> "pending",
                water_amount_collected |-> water_amount,
                amount_charged |-> estimated_cost,
                payment_method |-> payment_method,
                approval_date |-> FALSE,
                receipt_number |-> ReceiptNumber(Len(d.bookings) + 1)]
    IN  IF BookingKeyTaken(d.bookings, household_id, slot_id)
        THEN [result |-> "duplicate", db |-> d]
        ELSE [result |-> "ok",
              db |-> [d EXCEPT !.bookings = Append(@, row),
                               !.audit = Append(@, NoAudit),
                               !.time_slots[slot_id].current_bookings = @ + 1]]

\* (A variant that issues the receipt with the request.)
CreateTxnReceipt(d, household_id, slot_id, water_amount, estimated_cost, payment_method) ==
    LET row == [household_id |-> household_id, slot_id |-> slot_id,
                booking_status |-> "pending", collection_status |-> "pending",
                water_amount_collected |-> water_amount,
                amount_charged |-> estimated_cost,
                payment_method |-> payment_method,
                approval_date |-> FALSE,
                receipt_number |-> ReceiptNumber(Len(d.bookings) + 1)]
        receipt == [receipt_id |-> Cardinality(d.receipts) + 1,
                    receipt_number |-> row.receipt_number,
                    household_id |-> household_id,
                    booking_id |-> Len(d.bookings) + 1,
                    amount |-> estimated_cost,
                    water_amount |-> water_amount,
                    payment_method |-> payment_method]
    IN  IF ~BookingCheck(row)
        THEN [result |-> "integrity", db |-> d]
        ELSE IF BookingKeyTaken(d.bookings, household_id, slot_id)
        THEN [result |-> "duplicate", db |-> d]
        ELSE [result |-> "ok",
              db |-> [d EXCEPT !.bookings = Append(@, row),
                               !.audit = Append(@, NoAudit),
                               !.receipts = @ \cup {receipt}]]

\* The statements of one attempt of create_booking after BEGIN IMMEDIATE:
\* INSERT INTO bookings, then UPDATE bookings SET receipt_number.  The
\* INSERT checks the row's CHECK constraints and then the UNIQUE key.
CreateTxn(d, household_id, slot_id, water_amount, estimated_cost, payment_method) ==
    LET row == [household_id |-> household_id, slot_id |-> slot_id,
                booking_status |-> "pending", collection_status |-> "pending",
                water_amount_collected |-> water_amount,
                amount_charged |-> estimated_cost,
                payment_method |-> payment_method,
                approval_date |-> FALSE,
                receipt_number |-> ReceiptNumber(Len(d.bookings) + 1)]
    IN  IF ~BookingCheck(row)
        THEN [result |-> "integrity", db |-> d]
        ELSE IF BookingKeyTaken(d.bookings, household_id, slot_id)
        THEN [result |-> "duplicate", db |-> d]
        ELSE [result |-> "ok",
              db |-> [d EXCEPT !.bookings = Append(@, row),
                               !.audit = Append(@, NoAudit)]]

\* SELECT booking_status FROM bookings WHERE booking_id = ? AND household_id = ?
\* of cancel_booking, and its two refusals.
CancelAllowed(d, booking_id, household_id) ==
    /\ booking_id \in Ids(d.bookings)
    /\ d.bookings[booking_id].household_id = household_id
    /\ d.bookings[booking_id].booking_status \in {"pending", "approved"}

\* (A variant that gives the place and the money back.)
CancelUpdateRefund(d, booking_id, household_id) ==
    IF /\ booking_id \in Ids(d.bookings)
       /\ d.bookings[booking_id].household_id = household_id
    THEN LET b == d.bookings[booking_id]
             n == d.time_slots[b.slot_id].current_bookings
         IN  [d EXCEPT !.bookings[booking_id].booking_status = "cancelled",
                       !.time_slots[b.slot_id].current_bookings =
                           IF b.booking_status = "approved" /\ n > 0
                           THEN n - 1 ELSE n,
                       !.households[household_id].balance =
                           IF b.booking_status = "approved"
                           THEN @ + b.amount_charged ELSE @]
    ELSE d

\* UPDATE bookings SET booking_status = 'cancelled'
\* WHERE booking_id = ? AND household_id = ?
CancelUpdate(d, booking_id, household_id) ==
    IF /\ booking_id \in Ids(d.bookings)
       /\ d.bookings[booking_id].household_id = household_id
    THEN [d EXCEPT !.bookings[booking_id].booking_status = "cancelled"]
    ELSE d

\* (A variant with no WHERE clause.)
DepositMutant(d, household_id, amount) ==
    [d EXCEPT !.households = [h \in Households |->
                                 [@[h] EXCEPT !.balance = @ + amount,
                                              !.deposited = @ + amount]],
              !.deposits = @ + 1]

\* UPDATE households SET balance = balance + ? WHERE household_id = ?
\* (d.deposits counts the deposits committed and `deposited` sums the
\* amounts a household has added.)
Deposit(d, household_id, amount) ==
    [d EXCEPT !.households[household_id].balance = @ + amount,
              !.households[household_id].deposited = @ + amount,
              !.deposits = @ + 1]

\* UPDATE households SET ..., priority_level = ?, ..., balance = ?
\* WHERE household_id = ? of update_household.
UpdateHousehold(d, household_id, new_priority, new_balance) ==
    [d EXCEPT !.households[household_id].priority_level = new_priority,
              !.households[household_id].balance = new_balance]

\* UPDATE water_sources SET price_per_100L = ? WHERE source_id = ?
UpdatePrice(d, source_id, new_price) ==
    IF source_id \in Ids(d.water_sources)
    THEN [d EXCEPT !.water_sources[source_id].price_per_100L = new_price]
    ELSE d

\* ----------------------------------------------------- review statements

\* UPDATE bookings SET booking_status = ?, approval_date = ?
\* WHERE booking_id = ?: the row's present status is not looked at.
UpdateBookingStatus(d, booking_id, new_status) ==
    IF booking_id \in Ids(d.bookings)
    THEN [d EXCEPT !.bookings[booking_id].booking_status = new_status,
                   !.bookings[booking_id].approval_date = TRUE,
                   !.audit[booking_id].approvals =
                       IF new_status = "approved" THEN @ + 1 ELSE @,
                   !.audit[booking_id].denied =
                       IF new_status = "denied" THEN TRUE ELSE @]
    ELSE d

\* (A variant that counts nothing.)
IncrementSlotSkips(d, booking_id) == [ok |-> TRUE, db |-> d]

\* (A variant that counts every approval on the first slot.)
IncrementSlotFirst(d, booking_id) ==
    IF booking_id \in Ids(d.bookings)
    THEN LET row == [d.time_slots[1] EXCEPT !.current_bookings = @ + 1]
         IN  IF SlotCheck(row)
             THEN [ok |-> TRUE,
                   db |-> [d EXCEPT !.time_slots[1] = row,
                                    !.audit[booking_id].increments = @ + 1]]
             ELSE [ok |-> FALSE, db |-> d]
    ELSE [ok |-> TRUE, db |-> d]

\* (A variant that lets the transaction go on after the rejected UPDATE.)
IncrementSlotMutant(d, booking_id) ==
    IF booking_id \in Ids(d.bookings)
    THEN LET slot_id == d.bookings[booking_id].slot_id
             row == [d.time_slots[slot_id] EXCEPT !.current_bookings = @ + 1]
         IN  IF SlotCheck(row)
             THEN [ok |-> TRUE,
                   db |-> [d EXCEPT !.time_slots[slot_id] = row,
                                    !.audit[booking_id].increments = @ + 1]]
             ELSE [ok |-> TRUE, db |-> d]
    ELSE [ok |-> TRUE, db |-> d]

\* UPDATE time_slots SET current_bookings = current_bookings + 1
\* WHERE slot_id = (SELECT slot_id FROM bookings WHERE booking_id = ?).
\* ok is FALSE when the new row breaks a CHECK (sqlite3.IntegrityError).
IncrementSlot(d, booking_id) ==
    IF booking_id \in Ids(d.bookings)
    THEN LET slot_id == d.bookings[booking_id].slot_id
             row == [d.time_slots[slot_id] EXCEPT !.current_bookings = @ + 1]
         IN  IF SlotCheck(row)
             THEN [ok |-> TRUE,
                   db |-> [d EXCEPT !.time_slots[slot_id] = row,
                                    !.audit[booking_id].increments = @ + 1]]
             ELSE [ok |-> FALSE, db |-> d]
    ELSE [ok |-> TRUE, db |-> d]

\* (A variant that issues the receipt and leaves the balance.)
DebitAndReceiptFree(d, booking_id) ==
    IF booking_id \in Ids(d.bookings)
    THEN LET b == d.bookings[booking_id]
             receipt == [receipt_id |-> Cardinality(d.receipts) + 1,
                         receipt_number |-> b.receipt_number,
                         household_id |-> b.household_id,
                         booking_id |-> booking_id,
                         amount |-> b.amount_charged,
                         water_amount |-> b.water_amount_collected,
                         payment_method |-> b.payment_method]
         IN  IF ReceiptNumberTaken(d.receipts, b.receipt_number)
             THEN d
             ELSE [d EXCEPT !.receipts = @ \cup {receipt}]
    ELSE d

\* (A variant that charges the source's price of the day of approval.)
DebitAndReceiptRepriced(d, booking_id) ==
    IF booking_id \in Ids(d.bookings)
    THEN LET b == d.bookings[booking_id]
             price == d.water_sources[d.time_slots[b.slot_id].source_id].price_per_100L
             debited ==
                 IF b.payment_method = "mobile"
                 THEN [d EXCEPT !.households[b.household_id].balance =
                                    @ - b.water_amount_collected * price,
                                !.audit[booking_id].debits = @ + 1]
                 ELSE d
             receipt == [receipt_id |-> Cardinality(debited.receipts) + 1,
                         receipt_number |-> b.receipt_number,
                         household_id |-> b.household_id,
                         booking_id |-> booking_id,
                         amount |-> b.amount_charged,
                         water_amount |-> b.water_amount_collected,
                         payment_method |-> b.payment_method]
         IN  IF ReceiptNumberTaken(debited.receipts, b.receipt_number)
             THEN debited
             ELSE [debited EXCEPT !.receipts = @ \cup {receipt}]
    ELSE d

\* The balance deduction for a mobile payment and INSERT OR IGNORE INTO
\* receipts (skipped when the receipt number is taken).
DebitAndReceipt(d, booking_id) ==
    IF booking_id \in Ids(d.bookings)
    THEN LET b == d.bookings[booking_id]
             debited ==
                 IF b.payment_method = "mobile"
                 THEN [d EXCEPT !.households[b.household_id].balance =
                                    @ - b.amount_charged,
                                !.audit[booking_id].debits = @ + 1]
                 ELSE d
             receipt == [receipt_id |-> Cardinality(debited.receipts) + 1,
                         receipt_number |-> b.receipt_number,
                         household_id |-> b.household_id,
                         booking_id |-> booking_id,
                         amount |-> b.amount_charged,
                         water_amount |-> b.water_amount_collected,
                         payment_method |-> b.payment_method]
         IN  IF ReceiptNumberTaken(debited.receipts, b.receipt_number)
             THEN debited
             ELSE [debited EXCEPT !.receipts = @ \cup {receipt}]
    ELSE d

\* (A variant that tells nobody.)
NotifyMutant(d, booking_id, new_status) ==
    IF booking_id \in Ids(d.bookings)
    THEN [committed |-> TRUE, error |-> "none", work |-> d]
    ELSE [committed |-> FALSE, error |-> "TypeError", work |-> d]

\* SELECT household_id FROM bookings ...; fetchone()[0] raises TypeError when
\* there is no such booking.  Then INSERT INTO notifications for the user.
Notify(d, booking_id, new_status) ==
    IF booking_id \in Ids(d.bookings)
    THEN LET household_id == d.bookings[booking_id].household_id
         IN  [committed |-> TRUE, error |-> "none",
              work |-> [d EXCEPT !.notifications[UserOf(household_id)] = @ + 1]]
    ELSE [committed |-> FALSE, error |-> "TypeError", work |-> d]

\* (A variant in which a denial gives the slot's place back.)
ReviewTxnMutant(d, booking_id, action) ==
    LET new_status == IF action = "approve" THEN "approved" ELSE "denied"
        flipped == UpdateBookingStatus(d, booking_id, new_status)
    IN  IF action = "approve"
        THEN LET inc == IncrementSlot(flipped, booking_id)
             IN  IF inc.ok
                 THEN Notify(DebitAndReceipt(inc.db, booking_id),
                             booking_id, new_status)
                 ELSE [committed |-> FALSE, error |-> "IntegrityError",
                       work |-> flipped]
        ELSE IF booking_id \in Ids(d.bookings)
        THEN LET slot_id == d.bookings[booking_id].slot_id
                 n == d.time_slots[slot_id].current_bookings
             IN  Notify([flipped EXCEPT !.time_slots[slot_id].current_bookings =
                                            IF n > 0 THEN n - 1 ELSE n],
                        booking_id, new_status)
        ELSE Notify(flipped, booking_id, new_status)

\* The write transaction of review_bookings, from its first UPDATE to
\* conn.commit().  An exception leaves the transaction open with the
\* statements run so far in `work`.
ReviewTxn(d, booking_id, action) ==
    LET new_status == IF action = "approve" THEN "approved" ELSE "denied"
        flipped == UpdateBookingStatus(d, booking_id, new_status)
    IN  IF action = "approve"
        THEN LET inc == IncrementSlot(flipped, booking_id)
             IN  IF inc.ok
                 THEN Notify(DebitAndReceipt(inc.db, booking_id),
                             booking_id, new_status)
                 ELSE [committed |-> FALSE, error |-> "IntegrityError",
                       work |-> flipped]
        ELSE Notify(flipped, booking_id, new_status)

\* A connection that goes away with its transaction open: the transaction
\* is rolled back, the committed state stays.
CloseConnectionMutant(committed, work) == work

CloseConnection(committed, work) == committed

\* ------------------------------------------------------------ the state

\* Opening and closing time typed for the source in add_water_source, in
\* minutes of the day (08:00 and 09:00).
OpeningTime == 480
HalfHourClosingTime == 630
LateOpeningTime == 1350
LastMinute == 1439

ClosingTime == 540

\* A source that closes at 10:00: two slots a day.
LateClosingTime == 600

\* What a coordinator may type at "Set status to": nothing (toggle) or a
\* status.
DesiredStatuses == {"", "inactive"}

\* priority_access rules a deployment may have put on a source (the column
\* defaults to 'all'), as the set of the levels the text names.
PriorityRules == {{"all"}, {"high", "normal"}}

\* The levels a household may register with.
PriorityLevels == {"high", "normal", "low"}

\* A source open 08:00-11:00 with five places an hour, and the liters a
\* household may type when asking for a place there.
ScenarioCapacity == 5
ScenarioClosingTime == 660
ScenarioAmounts == {0, 200}

\* The coordinator sessions at work while slot generation is looked at.
SlotCoordinators == {"c1", "c2"}

\* Operating windows a coordinator gave the source when adding it, in
\* minutes of the day: 08:00-09:00, 08:00-10:30 and 22:30-23:59.
Windows == {<<OpeningTime, ClosingTime>>, <<OpeningTime, HalfHourClosingTime>>,
            <<LateOpeningTime, LastMinute>>}

\* What a coordinator may type in update_water_source at "New opening time"
\* (08:30) and at "New closing time" (10:30, or 08:00, which no opening
\* time here comes before).
ShiftedOpeningTime == 510
NewOpeningTimes == {ShiftedOpeningTime}
NewClosingTimes == {HalfHourClosingTime, OpeningTime}

RECURSIVE SumOver(_, _)
SumOver(S, f) ==
    IF S = {} THEN 0
    ELSE LET x == CHOOSE y \in S : TRUE IN f[x] + SumOver(S \ {x}, f)

\* The sum of the households' balances.
Funds(d) ==
    SumOver(Households, [h \in Households |-> d.households[h].balance])

\* A household session: where it is, the locals of the handler it is in, and
\* what its last create_booking returned ("ok" for a booking id).  `race`
\* records that this call of make_booking overlaps one of another session
\* of the same household for the same slot, begun while the household had
\* no booking for the slot.
HouseholdIdle ==
    [pc |-> "menu", available_slots |-> <<>>, slot_id |-> 0,
     water_amount |-> 0, price |-> 0, attempt |-> 0, booking_id |-> 0,
     result |-> "none", returned |-> "none", race |-> FALSE,
     amount |-> 0, funds |-> "none"]

\* A coordinator session: where it is, the sources generate_time_slots
\* listed, the exception review_bookings caught, and the household
\* update_household is editing with the row it read.
CoordinatorIdle ==
    [pc |-> "menu", sources |-> <<>>, error |-> "none",
     household_id |-> "none", current |-> <<>>,
     source_id |-> 0, target_date |-> "none", selected_source |-> <<>>,
     slots_created |-> 0]

\* The store after the households have registered (register_user) and a
\* coordinator has added one water source (add_water_source); each household
\* session is logged in as some household (login_user).
InitStore(capacity, closing_time) ==
    [water_sources |->
         << [source_name |-> "Well-A",
             capacity_per_hour |-> capacity,
             operating_start_time |-> OpeningTime,
             operating_end_time |-> closing_time,
             status |-> "active",
             price_per_100L |-> DefaultPrice,
             priority_access |-> {"all"}] >>,
     time_slots |-> <<>>,
     bookings |-> <<>>,
     audit |-> <<>>,
     households |->
         [h \in Households |->
             [balance |-> InitBalance, priority_level |-> "normal",
              status |-> "active", deposited |-> 0]],
     receipts |-> {},
     notifications |-> [h \in Households |-> 0],
     deposits |-> 0,
     generations |-> {}]

Init ==
    /\ \E capacity \in Capacities : db = InitStore(capacity, ClosingTime)
    /\ lock = NoSession
    /\ tx = <<>>
    /\ current_user \in {u \in [HouseholdSessions -> Households] :
                             u["p1"] = "h1"}
    /\ hs = [p \in HouseholdSessions |-> HouseholdIdle]
    /\ cs = [c \in CoordinatorSessions |-> CoordinatorIdle]

\* ---------------------------------------------------- household sessions

\* make_booking up to "Confirm booking? (y/n)": the household picks one of
\* the slots get_available_slots returned and types a water amount out of
\* `amounts`; the listing's price is kept.
make_booking_of(p, amounts) ==
    /\ hs[p].pc = "menu"
    /\ \E date \in Dates, water_amount \in amounts :
         LET available_slots == get_available_slots(db, date, current_user[p])
         IN
         \E slot_choice \in Ids(available_slots) :
            LET slot_id == available_slots[slot_choice]
                rivals == {q \in HouseholdSessions \ {p} :
                              /\ hs[q].pc = "confirm"
                              /\ hs[q].slot_id = slot_id
                              /\ current_user[q] = current_user[p]
                              /\ ~BookingKeyTaken(db.bookings, current_user[p],
                                                  slot_id)}
            IN  hs' = [q \in HouseholdSessions |->
                          IF q = p
                          THEN [HouseholdIdle EXCEPT
                                   !.pc = "confirm",
                                   !.available_slots = available_slots,
                                   !.slot_id = slot_id,
                                   !.water_amount = water_amount,
                                   !.price = db.water_sources[
                                                 db.time_slots[slot_id].source_id
                                             ].price_per_100L,
                                   !.attempt = 1,
                                   !.race = rivals # {}]
                          ELSE IF q \in rivals
                          THEN [hs[q] EXCEPT !.race = TRUE]
                          ELSE hs[q]]
    /\ UNCHANGED <<db, lock, tx, current_user, cs>>

make_booking(p) == make_booking_of(p, WaterAmounts)

\* What create_booking returns to make_booking when an attempt ends the
\* call: the booking id after the commit, None from every except clause.
Returned(result) == IF result = "ok" THEN "booking_id" ELSE "None"

\* (A variant that tries again after any failure but the last.)
create_booking_retries(p) ==
    /\ hs[p].pc = "confirm"
    /\ lock = NoSession
    /\ \E payment_method \in PaymentMethods :
         LET r == CreateTxn(db, current_user[p], hs[p].slot_id,
                            hs[p].water_amount,
                            hs[p].water_amount * hs[p].price, payment_method)
         IN  /\ db' = r.db
             /\ hs' = IF r.result # "ok" /\ hs[p].attempt < max_attempts
                      THEN [hs EXCEPT ![p].attempt = @ + 1]
                      ELSE [hs EXCEPT ![p] =
                               [HouseholdIdle EXCEPT !.slot_id = hs[p].slot_id,
                                                     !.race = hs[p].race,
                                                     !.result = r.result,
                                                !.returned = Returned(r.result)]]
    /\ UNCHANGED <<lock, tx, current_user, cs>>

\* One attempt of create_booking that gets the write lock.
create_booking(p) ==
    /\ hs[p].pc = "confirm"
    /\ lock = NoSession
    /\ \E payment_method \in PaymentMethods :
         LET r == CreateTxn(db, current_user[p], hs[p].slot_id,
                            hs[p].water_amount,
                            hs[p].water_amount * hs[p].price, payment_method)
         IN  /\ db' = r.db
             /\ hs' = [hs EXCEPT ![p] =
                          [HouseholdIdle EXCEPT !.slot_id = hs[p].slot_id,
                                                !.race = hs[p].race,
                                                !.result = r.result,
                                                !.returned = Returned(r.result)]]
    /\ UNCHANGED <<lock, tx, current_user, cs>>

\* (A variant that waits for the lock with no limit.)
create_booking_waits(p) ==
    /\ hs[p].pc = "confirm"
    /\ lock # NoSession
    /\ UNCHANGED <<db, lock, tx, current_user, hs, cs>>

\* One attempt of create_booking whose BEGIN IMMEDIATE ends in "database is
\* locked": another attempt after the sleep, or None after the last one.
create_booking_locked(p) ==
    /\ hs[p].pc = "confirm"
    /\ lock # NoSession
    /\ hs' = IF hs[p].attempt < max_attempts
             THEN [hs EXCEPT ![p].attempt = @ + 1]
             ELSE [hs EXCEPT ![p] =
                      [HouseholdIdle EXCEPT !.slot_id = hs[p].slot_id,
                                            !.race = hs[p].race,
                                            !.result = "locked",
                                            !.returned = Returned("locked")]]
    /\ UNCHANGED <<db, lock, tx, current_user, cs>>

\* cancel_booking up to its SELECT: the booking is the caller's and is
\* pending or approved.  (Otherwise the handler returns with no change.)
cancel_booking_select(p) ==
    /\ hs[p].pc = "menu"
    /\ \E booking_id \in 1..(Len(db.bookings) + 1) :
         /\ CancelAllowed(db, booking_id, current_user[p])
         /\ hs' = [hs EXCEPT ![p] =
                      [HouseholdIdle EXCEPT !.pc = "cancel",
                                            !.booking_id = booking_id]]
    /\ UNCHANGED <<db, lock, tx, current_user, cs>>

\* The UPDATE and commit of cancel_booking; "database is locked" when the
\* write lock is held.
cancel_booking_update(p) ==
    /\ hs[p].pc = "cancel"
    /\ db' = IF lock = NoSession
             THEN CancelUpdate(db, hs[p].booking_id, current_user[p])
             ELSE db
    /\ hs' = [hs EXCEPT ![p] = HouseholdIdle]
    /\ UNCHANGED <<lock, tx, current_user, cs>>

\* add_funds for an amount typed out of `amounts`.  An amount that is not
\* positive is refused before a connection is opened; the UPDATE of another
\* amount fails with "database is locked" while another connection holds
\* the write lock.  The session keeps the amount and how the call ended.
add_funds_of(p, amounts) ==
    /\ hs[p].pc = "menu"
    /\ \E amount \in amounts :
         IF amount <= 0
         THEN /\ hs' = [hs EXCEPT ![p] =
                           [HouseholdIdle EXCEPT !.amount = amount,
                                                 !.funds = "rejected"]]
              /\ UNCHANGED db
         ELSE IF lock # NoSession
         THEN /\ hs' = [hs EXCEPT ![p] =
                           [HouseholdIdle EXCEPT !.amount = amount,
                                                 !.funds = "locked"]]
              /\ UNCHANGED db
         ELSE /\ Funds(db) + amount
                     <= Cardinality(Households) * InitBalance
                            + MaxDeposits * amount
              /\ db.deposits <= MaxDeposits
              /\ db' = Deposit(db, current_user[p], amount)
              /\ hs' = [hs EXCEPT ![p] =
                           [HouseholdIdle EXCEPT !.amount = amount,
                                                 !.funds = "added"]]
    /\ UNCHANGED <<lock, tx, current_user, cs>>

\* add_funds for the amounts it accepts.
add_funds(p) == add_funds_of(p, {amount \in DepositAmounts : amount > 0})

\* add_funds for every amount.
add_funds_any(p) == add_funds_of(p, DepositAmounts)

\* -------------------------------------------------- coordinator sessions

\* The columns generate_time_slots selects from water_sources, with the
\* status its WHERE clause tested.
SourceRow(ws) ==
    [source_name |-> ws.source_name,
     operating_start_time |-> ws.operating_start_time,
     operating_end_time |-> ws.operating_end_time,
     capacity_per_hour |-> ws.capacity_per_hour,
     status |-> ws.status]

\* generate_time_slots up to "Select source": the active sources it lists.
generate_list(c) ==
    /\ cs[c].pc = "menu"
    /\ LET active == {i \in Ids(db.water_sources) :
                          db.water_sources[i].status = "active"}
       IN  /\ active # {}
           /\ cs' = [cs EXCEPT ![c] =
                        [CoordinatorIdle EXCEPT
                            !.pc = "generate",
                            !.sources = [i \in Ids(db.water_sources) |->
                                            SourceRow(db.water_sources[i])]]]
    /\ UNCHANGED <<db, lock, tx, current_user, hs>>

\* generate_time_slots from the chosen source and date to the message
\* "Generated n time slots" after conn.commit().  (Only active sources are
\* listed, so only those can be chosen.)  The first INSERT opens the write
\* transaction; a loop that runs no INSERT writes nothing and needs no lock.
\* db.generations keeps the source rows and dates generation has run for.
generate_time_slots(c) ==
    /\ cs[c].pc = "generate"
    /\ \E source_id \in Ids(cs[c].sources), date \in Dates :
         LET selected_source == cs[c].sources[source_id]
             g == GenerateLoop(db.time_slots, source_id, date,
                               selected_source.operating_start_time,
                               selected_source.operating_end_time,
                               selected_source.capacity_per_hour, 0)
         IN  /\ selected_source.status = "active"
             /\ g.inserts > 0 => lock = NoSession
             /\ db' = [db EXCEPT
                          !.time_slots = g.time_slots,
                          !.generations = @ \cup
                              {[source_id |-> source_id, target_date |-> date,
                                selected_source |-> selected_source]}]
             /\ cs' = [cs EXCEPT ![c] =
                          [CoordinatorIdle EXCEPT
                              !.pc = "generated",
                              !.source_id = source_id,
                              !.target_date = date,
                              !.selected_source = <<selected_source>>,
                              !.slots_created = g.slots_created]]
    /\ UNCHANGED <<lock, tx, current_user, hs>>

\* generate_time_slots when another connection holds the write lock for the
\* whole busy timeout: the first INSERT raises "database is locked", the
\* handler prints the error and nothing is written.
generate_time_slots_locked(c) ==
    /\ cs[c].pc = "generate"
    /\ lock # NoSession
    /\ \E source_id \in Ids(cs[c].sources), date \in Dates :
         LET selected_source == cs[c].sources[source_id]
             g == GenerateLoop(db.time_slots, source_id, date,
                               selected_source.operating_start_time,
                               selected_source.operating_end_time,
                               selected_source.capacity_per_hour, 0)
         IN  /\ selected_source.status = "active"
             /\ g.inserts > 0
             /\ cs' = [cs EXCEPT ![c] =
                          [CoordinatorIdle EXCEPT
                              !.pc = "generated",
                              !.source_id = source_id,
                              !.target_date = date,
                              !.selected_source = <<selected_source>>,
                              !.error = "locked"]]
    /\ UNCHANGED <<db, lock, tx, current_user, hs>>

\* toggle_source_status for a source of the list and a typed status.  (Its
\* SELECT and UPDATE are taken as one step: no other session changes a
\* source's status in between.)
toggle_source_status(c) ==
    /\ cs[c].pc = "menu"
    /\ lock = NoSession
    /\ \E source_id \in Ids(db.water_sources), desired \in DesiredStatuses :
         LET current_status == db.water_sources[source_id].status
             new_status == IF desired # "" THEN desired
                           ELSE IF current_status = "active" THEN "inactive"
                           ELSE "active"
         IN  db' = [db EXCEPT !.water_sources[source_id].status = new_status]
    /\ UNCHANGED <<lock, tx, current_user, hs, cs>>

\* update_water_source up to its prompts: the source row it read.
update_water_source_select(c) ==
    /\ cs[c].pc = "menu"
    /\ \E source_id \in Ids(db.water_sources) :
         cs' = [cs EXCEPT ![c] =
                   [CoordinatorIdle EXCEPT
                       !.pc = "edit_source",
                       !.source_id = source_id,
                       !.current = <<db.water_sources[source_id]>>]]
    /\ UNCHANGED <<db, lock, tx, current_user, hs>>

\* update_water_source from "New opening time" to conn.commit(): Enter keeps
\* a time that was read; a closing time not after the opening time keeps
\* both.  Name, capacity, status and price are kept (Enter) and written as
\* they were read.  No slot of the source is touched.
update_water_source(c) ==
    /\ cs[c].pc = "edit_source"
    /\ lock = NoSession
    /\ LET cur == cs[c].current[1]
       IN  \E start_in \in {cur.operating_start_time} \cup NewOpeningTimes,
              end_in \in {cur.operating_end_time} \cup NewClosingTimes :
             LET ordered == ~(end_in <= start_in)
                 new_start == IF ordered THEN start_in
                              ELSE cur.operating_start_time
                 new_end == IF ordered THEN end_in
                            ELSE cur.operating_end_time
             IN  db' = [db EXCEPT
                           !.water_sources[cs[c].source_id] =
                               [@ EXCEPT
                                   !.source_name = cur.source_name,
                                   !.capacity_per_hour = cur.capacity_per_hour,
                                   !.operating_start_time = new_start,
                                   !.operating_end_time = new_end,
                                   !.status = cur.status,
                                   !.price_per_100L = cur.price_per_100L]]
    /\ cs' = [cs EXCEPT ![c] = CoordinatorIdle]
    /\ UNCHANGED <<lock, tx, current_user, hs>>

\* "Press Enter to continue..." at the end of generate_time_slots.
generate_return(c) ==
    /\ cs[c].pc = "generated"
    /\ cs' = [cs EXCEPT ![c] = CoordinatorIdle]
    /\ UNCHANGED <<db, lock, tx, current_user, hs>>

\* review_bookings up to "Enter Booking ID to review": there are pending
\* bookings to list.
review_list(c) ==
    /\ cs[c].pc = "menu"
    /\ \E i \in Ids(db.bookings) : db.bookings[i].booking_status = "pending"
    /\ cs' = [cs EXCEPT ![c].pc = "review"]
    /\ UNCHANGED <<db, lock, tx, current_user, hs>>

\* review_bookings from the typed booking id and action to conn.commit(),
\* or to the exception that leaves the transaction open.  The write lock is
\* free here: a session holds it across a prompt only at "failed", and a
\* review that finds the database locked writes nothing.
review_bookings(c) ==
    /\ cs[c].pc = "review"
    /\ lock = NoSession
    /\ SumOver(Households, db.notifications) < MaxNotifications
    /\ \E booking_id \in 1..(Len(db.bookings) + 1),
          action \in {"approve", "deny"} :
         LET r == ReviewTxn(db, booking_id, action)
         IN  IF r.committed
             THEN /\ db' = r.work
                  /\ cs' = [cs EXCEPT ![c].pc = "menu"]
                  /\ UNCHANGED <<lock, tx>>
             ELSE /\ lock' = c
                  /\ tx' = <<r.work>>
                  /\ cs' = [cs EXCEPT ![c].pc = "failed",
                                      ![c].error = r.error]
                  /\ UNCHANGED db
    /\ UNCHANGED <<current_user, hs>>

\* The coordinator presses Enter after "Error reviewing bookings": the
\* handler returns and its connection, transaction open, goes away.
review_return(c) ==
    /\ cs[c].pc = "failed"
    /\ lock = c
    /\ db' = CloseConnection(db, tx[1])
    /\ lock' = NoSession
    /\ tx' = <<>>
    /\ cs' = [cs EXCEPT ![c] = CoordinatorIdle]
    /\ UNCHANGED <<current_user, hs>>

\* update_household up to its prompts: the household row it read.
update_household_select(c) ==
    /\ cs[c].pc = "menu"
    /\ \E household_id \in Households :
         cs' = [cs EXCEPT ![c] =
                   [CoordinatorIdle EXCEPT
                       !.pc = "edit",
                       !.household_id = household_id,
                       !.current = <<db.households[household_id]>>]]
    /\ UNCHANGED <<db, lock, tx, current_user, hs>>

\* update_household from "New balance" to conn.commit(): with `keep`, Enter
\* was pressed and new_balance is the balance that was read; otherwise a
\* balance was typed.  (The write lock is free, as in review_bookings.)
update_household_of(c, keep) ==
    /\ cs[c].pc = "edit"
    /\ lock = NoSession
    /\ \E new_balance \in IF keep THEN {cs[c].current[1].balance}
                           ELSE NewBalances :
         db' = UpdateHousehold(db, cs[c].household_id,
                               cs[c].current[1].priority_level, new_balance)
    /\ cs' = [cs EXCEPT ![c] = CoordinatorIdle]
    /\ UNCHANGED <<lock, tx, current_user, hs>>

update_household(c) == \E keep \in BOOLEAN : update_household_of(c, keep)

\* ------------------------------------------------ administrator sessions

\* system_settings, "Update Source Price": one UPDATE and its commit;
\* "database is locked" when the write lock is held.
system_settings(a) ==
    /\ \E source_id \in 1..(Len(db.water_sources) + 1), new_price \in Prices :
         db' = IF lock = NoSession
               THEN UpdatePrice(db, source_id, new_price)
               ELSE db
    /\ UNCHANGED <<lock, tx, current_user, hs, cs>>

Next ==
    \/ \E p \in HouseholdSessions :
         \/ make_booking(p)
         \/ create_booking(p)
         \/ create_booking_locked(p)
         \/ cancel_booking_select(p)
         \/ cancel_booking_update(p)
         \/ add_funds(p)
    \/ \E c \in CoordinatorSessions :
         \/ generate_list(c)
         \/ generate_time_slots(c)
         \/ generate_return(c)
         \/ review_list(c)
         \/ review_bookings(c)
         \/ review_return(c)

Spec == Init /\ [][Next]_vars

\* Requests and reviews only.  Once the household has confirmed,
\* create_booking runs to its return with no input: each attempt is taken,
\* whatever the other sessions do.
NextCreate ==
    \/ \E p \in HouseholdSessions :
         \/ make_booking(p)
         \/ create_booking(p)
         \/ create_booking_locked(p)
    \/ \E c \in CoordinatorSessions :
         \/ generate_list(c)
         \/ generate_time_slots(c)
         \/ generate_return(c)
         \/ review_list(c)
         \/ review_bookings(c)
         \/ review_return(c)

SpecCreate ==
    /\ Init
    /\ [][NextCreate]_vars
    /\ \A p \in HouseholdSessions :
          WF_vars(create_booking(p) \/ create_booking_locked(p))

\* ------------------------------------------------------------ the accounts

\* The accounts at work: a source of capacity 1 open for two slots a day,
\* one household session booking small and large amounts, the coordinator
\* reviewing, an administrator changing the price.
make_booking_scenario(p) == make_booking_of(p, ScenarioAmounts)

make_booking_any(p) ==
    make_booking_of(p, WaterAmounts \cup LargeWaterAmounts)

InitLedger ==
    /\ db = InitStore(1, LateClosingTime)
    /\ lock = NoSession
    /\ tx = <<>>
    /\ current_user = [p \in HouseholdSessions |->
                           IF p = "p1" THEN "h1" ELSE "h2"]
    /\ hs = [p \in HouseholdSessions |-> HouseholdIdle]
    /\ cs = [c \in CoordinatorSessions |-> CoordinatorIdle]

NextLedger ==
    \/ \E p \in LedgerSessions :
         \/ make_booking_any(p)
         \/ create_booking(p)
         \/ create_booking_locked(p)
         \/ add_funds(p)
    \/ \E c \in CoordinatorSessions :
         \/ generate_list(c)
         \/ generate_time_slots(c)
         \/ generate_return(c)
         \/ review_list(c)
         \/ review_bookings(c)
         \/ review_return(c)
    \/ \E a \in AdminSessions : system_settings(a)

SpecLedger == InitLedger /\ [][NextLedger]_vars

\* The accounts while the coordinator edits households: a source of
\* capacity 1 open for one slot a day, one household session.
InitEdits ==
    /\ db = InitStore(1, ClosingTime)
    /\ lock = NoSession
    /\ tx = <<>>
    /\ current_user = [p \in HouseholdSessions |->
                           IF p = "p1" THEN "h1" ELSE "h2"]
    /\ hs = [p \in HouseholdSessions |-> HouseholdIdle]
    /\ cs = [c \in CoordinatorSessions |-> CoordinatorIdle]

NextEdits ==
    \/ \E p \in LedgerSessions :
         \/ make_booking(p)
         \/ create_booking(p)
         \/ create_booking_locked(p)
         \/ add_funds(p)
    \/ \E c \in CoordinatorSessions :
         \/ generate_list(c)
         \/ generate_time_slots(c)
         \/ generate_return(c)
         \/ review_list(c)
         \/ review_bookings(c)
         \/ review_return(c)
         \/ update_household_select(c)
         \/ update_household(c)

SpecEdits == InitEdits /\ [][NextEdits]_vars

\* Slot generation: a source with one of the operating windows, two
\* coordinator sessions generating its slots, one household booking them and
\* the coordinators reviewing the bookings.
InitSlots ==
    /\ \E capacity \in Capacities, window \in Windows :
         db = [InitStore(capacity, window[2]) EXCEPT
                  !.water_sources[1].operating_start_time = window[1]]
    /\ lock = NoSession
    /\ tx = <<>>
    /\ current_user = [p \in HouseholdSessions |->
                          IF p = "p1" THEN "h1" ELSE "h2"]
    /\ hs = [p \in HouseholdSessions |-> HouseholdIdle]
    /\ cs = [c \in SlotCoordinators |-> CoordinatorIdle]

NextSlots ==
    \/ \E p \in LedgerSessions :
         \/ make_booking(p)
         \/ create_booking(p)
         \/ create_booking_locked(p)
    \/ \E c \in SlotCoordinators :
         \/ generate_list(c)
         \/ generate_time_slots(c)
         \/ generate_time_slots_locked(c)
         \/ generate_return(c)
         \/ review_list(c)
         \/ review_bookings(c)
         \/ review_return(c)

SpecSlots == InitSlots /\ [][NextSlots]_vars

\* Changed operating hours: a source open 08:00-10:00, and two coordinator
\* sessions that generate its slots and edit the source.
InitWindows ==
    /\ \E capacity \in Capacities : db = InitStore(capacity, LateClosingTime)
    /\ lock = NoSession
    /\ tx = <<>>
    /\ current_user = [p \in HouseholdSessions |->
                          IF p = "p1" THEN "h1" ELSE "h2"]
    /\ hs = [p \in HouseholdSessions |-> HouseholdIdle]
    /\ cs = [c \in SlotCoordinators |-> CoordinatorIdle]

NextWindows ==
    \E c \in SlotCoordinators :
        \/ generate_list(c)
        \/ generate_time_slots(c)
        \/ generate_return(c)
        \/ update_water_source_select(c)
        \/ update_water_source(c)

SpecWindows == InitWindows /\ [][NextWindows]_vars

\* The listing: two sources, the first added named after the second or like
\* it, the first open 09:00-10:00 with one of the priority rules and the
\* second open 08:00-09:00; household h1 registered with one of the priority
\* levels.  A coordinator generates their slots, switches sources on and off
\* and reviews the bookings h1 makes.
InitListing ==
    /\ \E source_name \in {"Well-A", "Well-B"}, priority_access \in PriorityRules,
          priority_level \in PriorityLevels :
         LET d == InitStore(1, LateClosingTime)
         IN  db = [d EXCEPT
                      !.water_sources =
                          << [d.water_sources[1] EXCEPT
                                 !.source_name = "Well-B",
                                 !.operating_start_time = ClosingTime,
                                 !.priority_access = priority_access],
                             [d.water_sources[1] EXCEPT
                                 !.source_name = source_name,
                                 !.operating_end_time = ClosingTime] >>,
                      !.households["h1"].priority_level = priority_level]
    /\ lock = NoSession
    /\ tx = <<>>
    /\ current_user = [p \in HouseholdSessions |->
                          IF p = "p1" THEN "h1" ELSE "h2"]
    /\ hs = [p \in HouseholdSessions |-> HouseholdIdle]
    /\ cs = [c \in CoordinatorSessions |-> CoordinatorIdle]

NextListing ==
    \/ \E p \in LedgerSessions :
         \/ make_booking(p)
         \/ create_booking(p)
         \/ create_booking_locked(p)
    \/ \E c \in CoordinatorSessions :
         \/ generate_list(c)
         \/ generate_time_slots(c)
         \/ generate_return(c)
         \/ toggle_source_status(c)
         \/ review_list(c)
         \/ review_bookings(c)
         \/ review_return(c)

SpecListing == InitListing /\ [][NextListing]_vars

\* One household and one coordinator at a source open 08:00-11:00 with five
\* places an hour at the default price; the household may type a water
\* amount of 0.
InitScenario ==
    /\ db = InitStore(ScenarioCapacity, ScenarioClosingTime)
    /\ lock = NoSession
    /\ tx = <<>>
    /\ current_user = [p \in HouseholdSessions |->
                          IF p = "p1" THEN "h1" ELSE "h2"]
    /\ hs = [p \in HouseholdSessions |-> HouseholdIdle]
    /\ cs = [c \in CoordinatorSessions |-> CoordinatorIdle]

NextScenario ==
    \/ \E p \in LedgerSessions :
         \/ make_booking_scenario(p)
         \/ create_booking(p)
         \/ create_booking_locked(p)
    \/ \E c \in CoordinatorSessions :
         \/ generate_list(c)
         \/ generate_time_slots(c)
         \/ generate_return(c)
         \/ review_list(c)
         \/ review_bookings(c)
         \/ review_return(c)

SpecScenario == InitScenario /\ [][NextScenario]_vars

\* The accounts: two households that book and add funds, typing any of the
\* amounts, and a coordinator who reviews their bookings.
InitFunds ==
    /\ db = InitStore(1, ClosingTime)
    /\ lock = NoSession
    /\ tx = <<>>
    /\ current_user = [p \in HouseholdSessions |->
                          IF p = "p1" THEN "h1" ELSE "h2"]
    /\ hs = [p \in HouseholdSessions |-> HouseholdIdle]
    /\ cs = [c \in CoordinatorSessions |-> CoordinatorIdle]

NextFunds ==
    \/ \E p \in HouseholdSessions :
         \/ make_booking(p)
         \/ create_booking(p)
         \/ create_booking_locked(p)
         \/ add_funds_any(p)
    \/ \E c \in CoordinatorSessions :
         \/ generate_list(c)
         \/ generate_time_slots(c)
         \/ generate_return(c)
         \/ review_list(c)
         \/ review_bookings(c)
         \/ review_return(c)

SpecFunds == InitFunds /\ [][NextFunds]_vars

\* ------------------------------------------------------------- properties

\* The booking rows of a household for a slot, in a store value.
RowsOf(d, household_id, slot_id) ==
    {i \in Ids(d.bookings) :
        /\ d.bookings[i].household_id = household_id
        /\ d.bookings[i].slot_id = slot_id}

NonCancelledRowsOf(d, household_id, slot_id) ==
    {i \in RowsOf(d, household_id, slot_id) :
        d.bookings[i].booking_status # "cancelled"}

SlotFull(d, slot_id) ==
    d.time_slots[slot_id].current_bookings = d.time_slots[slot_id].max_households

HasReceipt(d, booking_id) == \E r \in d.receipts : r.booking_id = booking_id

\* The committed store and, when a transaction is open, its working copy.
Stores == {db} \cup {tx[i] : i \in Ids(tx)}

\* A step in which session p's create_booking returns.
CreateReturns(p) == hs[p].pc = "confirm" /\ hs'[p].pc = "menu"

\* C1: in every reachable state every slot has
\* 0 <= current_bookings <= max_households, in the committed store and in
\* the working copy of an open transaction.
C1_SlotBounds ==
    \A d \in Stores : \A i \in Ids(d.time_slots) :
        /\ 0 <= d.time_slots[i].current_bookings
        /\ d.time_slots[i].current_bookings <= d.time_slots[i].max_households

\* C1 witness: a slot is full and a further increment has just been rejected.
C1_Witness ==
    /\ \E i \in Ids(db.time_slots) :
          SlotFull(db, i) /\ db.time_slots[i].current_bookings > 0
    /\ \E c \in CoordinatorSessions :
          cs[c].pc = "failed" /\ cs[c].error = "IntegrityError"

\* C2 (as claimed): however often a booking is approved, its slot is
\* incremented at most once and its household debited at most once for it.
C2_ApproveOnce ==
    \A b \in Ids(db.bookings) :
        db.audit[b].increments <= 1 /\ db.audit[b].debits <= 1

\* C3 (as claimed): when two sessions of one household have called Create
\* for the same slot concurrently, the household having no booking for it,
\* and both calls have returned, one returned a booking id, the other the
\* duplicate-booking failure, and one row exists for the pair.
C3_ConcurrentCreate ==
    \A p, q \in HouseholdSessions :
        ( /\ p # q
          /\ current_user[p] = current_user[q]
          /\ hs[p].race /\ hs[q].race
          /\ hs[p].slot_id = hs[q].slot_id
          /\ hs[p].pc = "menu" /\ hs[q].pc = "menu"
          /\ hs[p].result # "none" /\ hs[q].result # "none" )
        => /\ {hs[p].result, hs[q].result} = {"ok", "duplicate"}
           /\ Cardinality(RowsOf(db, current_user[p], hs[p].slot_id)) = 1

\* C4: no step turns a pending booking whose slot is full into an approved
\* one, and a review that ends in an exception changes nothing in the store:
\* neither the step that raises nor the return from the handler (nor any
\* step taken meanwhile) changes the committed state.
C4_Step ==
    /\ \A b \in Ids(db.bookings) :
          ( /\ db.bookings[b].booking_status = "pending"
            /\ SlotFull(db, db.bookings[b].slot_id) )
          => db'.bookings[b].booking_status # "approved"
    /\ \A c \in CoordinatorSessions :
          (cs[c].pc = "failed" \/ cs'[c].pc = "failed") => db' = db

C4_RefusedWhenFull == [][C4_Step]_vars

\* C4 witness: a slot with max_households = 1 holds one approved booking; the
\* approval of a second household's pending booking was rejected by the
\* CHECK, its status write sits in the open transaction only.
C4_Witness ==
    \E c \in CoordinatorSessions, b1, b2 \in Ids(db.bookings) :
        /\ cs[c].pc = "failed" /\ cs[c].error = "IntegrityError"
        /\ lock = c
        /\ db.bookings[b1].slot_id = db.bookings[b2].slot_id
        /\ db.bookings[b1].household_id # db.bookings[b2].household_id
        /\ db.time_slots[db.bookings[b1].slot_id].max_households = 1
        /\ db.time_slots[db.bookings[b1].slot_id].current_bookings = 1
        /\ db.bookings[b1].booking_status = "approved"
        /\ db.bookings[b2].booking_status = "pending"
        /\ tx[1].bookings[b2].booking_status = "approved"

AllowedEdges ==
    { <<"pending", "approved">>, <<"pending", "denied">>,
      <<"pending", "cancelled">>, <<"approved", "cancelled">>,
      <<"approved", "completed">> }

\* C5 (as claimed): a booking's booking_status changes only along
\* pending -> approved | denied | cancelled and approved -> cancelled |
\* completed.
C5_StatusEdges ==
    [][\A b \in Ids(db.bookings) :
          \/ db'.bookings[b].booking_status = db.bookings[b].booking_status
          \/ <<db.bookings[b].booking_status, db'.bookings[b].booking_status>>
                 \in AllowedEdges]_vars

\* C6 (as claimed): at most one coordinator decision, one Approve or one
\* Deny, ever takes effect on a booking.
C6_OneDecision ==
    \A b \in Ids(db.bookings) :
        db.audit[b].approvals + (IF db.audit[b].denied THEN 1 ELSE 0) <= 1

\* C7: in the committed store, which is what the other sessions see, every
\* status write to approved comes with its slot increment, with its balance
\* debit if and only if the booking is paid by mobile, and with the booking's
\* receipt; a booking never written to approved has none of them.
C7_ApproveAtomic ==
    \A b \in Ids(db.bookings) :
        /\ db.audit[b].increments = db.audit[b].approvals
        /\ db.audit[b].debits =
               IF db.bookings[b].payment_method = "mobile"
               THEN db.audit[b].approvals ELSE 0
        /\ HasReceipt(db, b) <=> db.audit[b].approvals > 0

\* C7 witness: an approval has committed with all its effects, and another
\* approval has failed at the slot increment with its status write done.
C7_Witness ==
    /\ \E b \in Ids(db.bookings) :
          db.audit[b].approvals = 1 /\ db.audit[b].debits = 1 /\ HasReceipt(db, b)
    /\ \E c \in CoordinatorSessions, b \in Ids(db.bookings) :
          /\ cs[c].pc = "failed" /\ cs[c].error = "IntegrityError"
          /\ tx[1].audit[b].approvals = db.audit[b].approvals + 1
          /\ tx[1].audit[b].increments = db.audit[b].increments

\* C8 (as claimed): a Create that returns a booking id finds its slot
\* offerable to the household in the store it commits to.
C8_CreateRechecks ==
    [][\A p \in HouseholdSessions :
          (CreateReturns(p) /\ hs'[p].result = "ok")
          => Offerable(db, hs[p].slot_id,
                       db.time_slots[hs[p].slot_id].slot_date,
                       db.households[current_user[p]].priority_level)]_vars

\* C9: for every household and slot, at most one booking is not cancelled.
C9_OneNonCancelled ==
    \A h \in Households : \A i \in Ids(db.time_slots) :
        Cardinality(NonCancelledRowsOf(db, h, i)) <= 1

\* C9 witness: a Create was rejected as a duplicate and the household holds
\* its one live booking for the slot.
C9_Witness ==
    \E p \in HouseholdSessions :
        /\ hs[p].result = "duplicate"
        /\ Cardinality(NonCancelledRowsOf(db, current_user[p], hs[p].slot_id)) = 1

\* C10 (as claimed): a Create that gets the write lock is rejected as a
\* duplicate exactly when the household has a booking for the slot that is
\* not cancelled.
C10_DuplicateIffLive ==
    [][\A p \in HouseholdSessions :
          (CreateReturns(p) /\ lock = NoSession)
          => ( hs'[p].result = "duplicate"
               <=> NonCancelledRowsOf(db, current_user[p], hs[p].slot_id) # {} )]_vars

\* C11: a Create that returns a booking id has appended exactly one booking,
\* the caller's for the chosen slot, with booking_status and
\* collection_status pending, and a Create that fails has changed no
\* booking; neither changes a slot or a household.
C11_Step ==
    \A p \in HouseholdSessions :
        CreateReturns(p) =>
            /\ db'.time_slots = db.time_slots
            /\ db'.households = db.households
            /\ IF hs'[p].result = "ok"
               THEN /\ Len(db'.bookings) = Len(db.bookings) + 1
                    /\ \A b \in Ids(db.bookings) : db'.bookings[b] = db.bookings[b]
                    /\ LET row == db'.bookings[Len(db'.bookings)]
                       IN  /\ row.household_id = current_user[p]
                           /\ row.slot_id = hs[p].slot_id
                           /\ row.booking_status = "pending"
                           /\ row.collection_status = "pending"
               ELSE db'.bookings = db.bookings

C11_CreateFrame == [][C11_Step]_vars

\* C11 witness: one Create has returned a booking id and another has failed;
\* the one pending booking stands, its slot counts no booking and the
\* balances are those the households registered with.
C11_Witness ==
    \E p, q \in HouseholdSessions :
        /\ hs[p].result = "ok" /\ hs[p].pc = "menu"
        /\ hs[q].result \in {"duplicate", "locked"} /\ hs[q].pc = "menu"
        /\ Len(db.bookings) = 1
        /\ db.bookings[1].booking_status = "pending"
        /\ db.time_slots[db.bookings[1].slot_id].current_bookings = 0
        /\ \A h \in Households : db.households[h].balance = InitBalance

\* C12: a step that turns a pending booking into an approved one adds
\* exactly 1 to the current_bookings of that booking's slot, whatever the
\* liters requested, and leaves every other slot's count as it was.
C12_Step ==
    \A b \in Ids(db.bookings) :
        ( /\ db.bookings[b].booking_status = "pending"
          /\ db'.bookings[b].booking_status = "approved" )
        => /\ Len(db'.time_slots) = Len(db.time_slots)
           /\ \A i \in Ids(db.time_slots) :
                 db'.time_slots[i].current_bookings =
                     db.time_slots[i].current_bookings
                         + (IF i = db.bookings[b].slot_id THEN 1 ELSE 0)

C12_ApproveIncrementsOwnSlot == [][C12_Step]_vars

\* C12 witness: two bookings of different liters on two slots are approved
\* and each slot counts one booking.
C12_Witness ==
    \E b1, b2 \in Ids(db.bookings) :
        /\ db.bookings[b1].slot_id # db.bookings[b2].slot_id
        /\ db.bookings[b1].water_amount_collected
               # db.bookings[b2].water_amount_collected
        /\ db.bookings[b1].booking_status = "approved"
        /\ db.bookings[b2].booking_status = "approved"
        /\ db.time_slots[db.bookings[b1].slot_id].current_bookings = 1
        /\ db.time_slots[db.bookings[b2].slot_id].current_bookings = 1

\* C13: a booking's amount_charged never changes after Create, and a step
\* that commits an approval of a booking takes exactly amount_charged from
\* the owning household's balance if the booking is paid by mobile and
\* nothing if by cash, and leaves every other household's balance alone.
C13_Step ==
    /\ \A b \in Ids(db.bookings) :
          db'.bookings[b].amount_charged = db.bookings[b].amount_charged
    /\ \A b \in Ids(db.bookings) :
          db'.audit[b].approvals = db.audit[b].approvals + 1
          => \A h \in Households :
                db'.households[h].balance =
                    db.households[h].balance
                        - (IF /\ h = db.bookings[b].household_id
                              /\ db.bookings[b].payment_method = "mobile"
                           THEN db.bookings[b].amount_charged ELSE 0)

C13_DebitChargedAmount == [][C13_Step]_vars

\* C13 witness: a mobile booking was approved after the source's price had
\* changed, and its household paid the amount charged at Create.
C13_Witness ==
    \E b \in Ids(db.bookings) :
        LET row == db.bookings[b]
            ws == db.water_sources[db.time_slots[row.slot_id].source_id]
        IN  /\ Len(db.bookings) = 1
            /\ row.booking_status = "approved"
            /\ row.payment_method = "mobile"
            /\ row.amount_charged # row.water_amount_collected * ws.price_per_100L
            /\ db.deposits = 0
            /\ db.households[row.household_id].balance
                   = InitBalance - row.amount_charged

ReceiptsOf(d, booking_id) == {r \in d.receipts : r.booking_id = booking_id}

C14_State ==
    /\ \A r \in db.receipts : r.booking_id \in Ids(db.bookings)
    /\ \A b \in Ids(db.bookings) :
          /\ Cardinality(ReceiptsOf(db, b)) <= 1
          /\ db.bookings[b].booking_status = "approved"
                 => Cardinality(ReceiptsOf(db, b)) = 1
          /\ ReceiptsOf(db, b) # {} => db.audit[b].approvals > 0

\* C14: in every state each booking has at most one receipt, however often
\* it was approved; each approved booking has exactly one; a receipt is
\* there only for a booking that was approved at some point; and no step
\* changes or removes a receipt.
C14_Receipts ==
    [][C14_State /\ C14_State' /\ db.receipts \subseteq db'.receipts]_vars

\* C14 witness: a booking approved twice has its one receipt.
C14_Witness ==
    \E b \in Ids(db.bookings) :
        /\ db.audit[b].approvals = 2
        /\ db.bookings[b].booking_status = "approved"
        /\ Cardinality(ReceiptsOf(db, b)) = 1

\* A step that commits a review which is not an approval: a Deny.
DenyCommits ==
    /\ db'.notifications # db.notifications
    /\ \A b \in Ids(db.bookings) :
          db'.audit[b].approvals = db.audit[b].approvals

\* C15: a step that commits a Deny changes no slot, no household and no
\* receipt; it changes one booking, in booking_status (to denied) and
\* approval_date only.
C15_Step ==
    DenyCommits =>
        /\ db'.time_slots = db.time_slots
        /\ db'.households = db.households
        /\ db'.receipts = db.receipts
        /\ Len(db'.bookings) = Len(db.bookings)
        /\ \E b \in Ids(db.bookings) :
              /\ db'.bookings[b] =
                     [db.bookings[b] EXCEPT !.booking_status = "denied",
                                            !.approval_date = TRUE]
              /\ \A b2 \in Ids(db.bookings) \ {b} :
                    db'.bookings[b2] = db.bookings[b2]

C15_DenyFrame == [][C15_Step]_vars

\* C15 witness: a booking approved and then denied: its slot still counts
\* it, its household is still debited, its receipt is still there.
C15_Witness ==
    \E b \in Ids(db.bookings) :
        LET row == db.bookings[b]
        IN  /\ row.booking_status = "denied"
            /\ db.audit[b].approvals = 1 /\ db.audit[b].debits = 1
            /\ db.time_slots[row.slot_id].current_bookings = 1
            /\ db.deposits = 0
            /\ db.households[row.household_id].balance
                   = InitBalance - row.amount_charged
            /\ HasReceipt(db, b)

\* C16 (as claimed): a booking's status is set to cancelled only by a Cancel
\* of a session of the household that owns it, and only from pending or
\* approved.
C16_CancelGuard ==
    [][\A b \in Ids(db.bookings) :
          ( /\ db'.bookings[b].booking_status = "cancelled"
            /\ db.bookings[b].booking_status # "cancelled" )
          => /\ db.bookings[b].booking_status \in {"pending", "approved"}
             /\ \E p \in HouseholdSessions :
                   /\ hs[p].pc = "cancel" /\ hs'[p].pc = "menu"
                   /\ hs[p].booking_id = b
                   /\ current_user[p] = db.bookings[b].household_id]_vars

\* C17: a step in which cancel_booking returns changes nothing in the store
\* but the booking_status of the booking it names: no slot, no household,
\* no receipt, no notification, no other booking.
C17_Step ==
    \A p \in HouseholdSessions :
        (hs[p].pc = "cancel" /\ hs'[p].pc = "menu") =>
            /\ db'.time_slots = db.time_slots
            /\ db'.households = db.households
            /\ db'.receipts = db.receipts
            /\ db'.notifications = db.notifications
            /\ Len(db'.bookings) = Len(db.bookings)
            /\ \A b \in Ids(db.bookings) :
                  \/ db'.bookings[b] = db.bookings[b]
                  \/ /\ b = hs[p].booking_id
                     /\ db'.bookings[b] =
                            [db.bookings[b] EXCEPT !.booking_status = "cancelled"]

C17_CancelFrame == [][C17_Step]_vars

\* C17 witness: an approved mobile booking was cancelled: the household is
\* still debited, the slot still counts the booking, the receipt is there.
C17_Witness ==
    \E b \in Ids(db.bookings) :
        LET row == db.bookings[b]
        IN  /\ Len(db.bookings) = 1
            /\ row.booking_status = "cancelled"
            /\ db.audit[b].approvals = 1 /\ db.audit[b].debits = 1
            /\ ~db.audit[b].denied
            /\ db.time_slots[row.slot_id].current_bookings = 1
            /\ db.deposits = 0
            /\ db.households[row.household_id].balance
                   = InitBalance - row.amount_charged
            /\ HasReceipt(db, b)

\* C18 (as claimed): a step that changes a slot's current_bookings turns a
\* pending booking of that slot into an approved one.
C18_CountWithApproval ==
    [][\A i \in Ids(db.time_slots) :
          db'.time_slots[i].current_bookings # db.time_slots[i].current_bookings
          => \E b \in Ids(db.bookings) :
                /\ db.bookings[b].slot_id = i
                /\ db.bookings[b].booking_status = "pending"
                /\ db'.bookings[b].booking_status = "approved"]_vars

\* C19 (as claimed): a step that changes a household's balance is a deposit
\* of a session of that household or commits the approval of one of its
\* mobile bookings, which takes the amount charged.
C19_BalanceWriters ==
    [][\A h \in Households :
          db'.households[h].balance # db.households[h].balance
          => \/ /\ db'.deposits = db.deposits + 1
                /\ db'.households[h].balance > db.households[h].balance
                /\ \E p \in HouseholdSessions :
                      current_user[p] = h /\ hs[p].pc = "menu"
             \/ \E b \in Ids(db.bookings) :
                   /\ db.bookings[b].household_id = h
                   /\ db.bookings[b].payment_method = "mobile"
                   /\ db'.audit[b].debits = db.audit[b].debits + 1
                   /\ db'.households[h].balance =
                          db.households[h].balance - db.bookings[b].amount_charged]_vars

\* C20 (as claimed): no household's balance is ever below zero.
C20_NonNegative ==
    \A h \in Households : db.households[h].balance >= 0

\* ------------------------------------------------ slot generation properties

SameSlotKey(a, b) ==
    /\ a.source_id = b.source_id
    /\ a.slot_date = b.slot_date
    /\ a.start_time = b.start_time
    /\ a.end_time = b.end_time

\* Session c ends a run of generate_time_slots in this step.
Generates(c) == cs[c].pc = "generate" /\ cs'[c].pc = "generated"

\* C21: generation is idempotent.  A run of generate_time_slots, whichever
\* coordinator session makes it, leaves every slot that existed as it was
\* (bookings counted, capacity and status included), leaves no two slots
\* with the same (source, date, start, end), and, when generation has
\* already run for the same source row and date, adds nothing and reports
\* a count of 0.
C21_Step ==
    \A c \in DOMAIN cs :
        Generates(c) =>
            /\ Len(db'.time_slots) >= Len(db.time_slots)
            /\ \A i \in Ids(db.time_slots) : db'.time_slots[i] = db.time_slots[i]
            /\ \A i, j \in Ids(db'.time_slots) :
                   SameSlotKey(db'.time_slots[i], db'.time_slots[j]) => i = j
            /\ [source_id |-> cs'[c].source_id,
                target_date |-> cs'[c].target_date,
                selected_source |-> cs'[c].selected_source[1]] \in db.generations
                   => /\ cs'[c].slots_created = 0
                      /\ db'.time_slots = db.time_slots

C21_GenerateIdempotent == [][C21_Step]_vars

\* Two coordinator sessions have generated the same source and date, the
\* second while the first still reads its count: the first created slots,
\* the second none, and a slot approved in between keeps its booking.
C21_Witness ==
    /\ cs["c1"].pc = "generated" /\ cs["c1"].slots_created > 0
    /\ cs["c2"].pc = "generated" /\ cs["c2"].slots_created = 0
    /\ cs["c2"].error = "none"
    /\ cs["c1"].source_id = cs["c2"].source_id
    /\ cs["c1"].target_date = cs["c2"].target_date
    /\ \E i \in Ids(db.time_slots) : db.time_slots[i].current_bookings > 0

\* The whole hours of a window.
HoursOf(selected_source) ==
    (selected_source.operating_end_time
        - selected_source.operating_start_time) \div SlotMinutes

\* C22: for a source with window [start, end) and capacity cap, a run of
\* generate_time_slots for a date on which the source has no slot creates
\* exactly the consecutive one-hour slots that end by `end`: there are
\* floor((end - start) / 1h) of them, that number is the count reported,
\* the k-th starts at start + (k-1)h, none ends after `end` or before it
\* starts (also when the next hour would cross midnight), each has
\* max_households = cap and current_bookings = 0; and the loop stops after
\* at most one statement more than that number.
C22_Step ==
    \A c \in DOMAIN cs :
        (/\ Generates(c)
         /\ cs'[c].error = "none"
         /\ \A i \in Ids(db.time_slots) :
               ~(/\ db.time_slots[i].source_id = cs'[c].source_id
                 /\ db.time_slots[i].slot_date = cs'[c].target_date))
        => LET selected_source == cs'[c].selected_source[1]
               start == selected_source.operating_start_time
               end == selected_source.operating_end_time
               n == HoursOf(selected_source)
               old == Len(db.time_slots)
               g == GenerateLoop(db.time_slots, cs'[c].source_id,
                                 cs'[c].target_date, start, end,
                                 selected_source.capacity_per_hour, 0)
           IN  /\ cs'[c].slots_created = n
               /\ Len(db'.time_slots) = old + n
               /\ g.inserts <= n + 1
               /\ \A k \in 1..n :
                     LET ts == db'.time_slots[old + k]
                     IN  /\ ts.source_id = cs'[c].source_id
                         /\ ts.slot_date = cs'[c].target_date
                         /\ ts.start_time = start + (k - 1) * SlotMinutes
                         /\ ts.end_time = ts.start_time + SlotMinutes
                         /\ ts.end_time <= end
                         /\ ts.max_households = selected_source.capacity_per_hour
                         /\ ts.current_bookings = 0

C22_GenerateWindow == [][C22_Step]_vars

\* The window 22:30-23:59 has been generated: one slot, 22:30-23:30, and
\* the hour that would cross midnight is not there.
C22_Witness ==
    \E c \in DOMAIN cs :
        /\ cs[c].pc = "generated"
        /\ cs[c].slots_created = 1
        /\ cs[c].selected_source[1].operating_start_time = LateOpeningTime
        /\ cs[c].selected_source[1].operating_end_time = LastMinute
        /\ Len(db.time_slots) = 1
        /\ db.time_slots[1].start_time = LateOpeningTime
        /\ db.time_slots[1].end_time = LateOpeningTime + SlotMinutes

\* ---------------------------------------------------------- listing properties

Range(seq) == {seq[k] : k \in Ids(seq)}

\* Session p ends the listing part of make_booking in this step.
Lists(p) == hs[p].pc = "menu" /\ hs'[p].pc = "confirm"

\* The slots the listing is said to hold for a date and a priority level.
C23_Expected(date, tier) ==
    {i \in Ids(db.time_slots) :
        /\ db.time_slots[i].slot_date = date
        /\ db.time_slots[i].status = "available"
        /\ db.time_slots[i].current_bookings < db.time_slots[i].max_households
        /\ db.water_sources[db.time_slots[i].source_id].status = "active"
        /\ \/ db.water_sources[db.time_slots[i].source_id].priority_access = {"all"}
           \/ tier \in db.water_sources[db.time_slots[i].source_id].priority_access}

C23_Returns ==
    \A h \in Households, date \in Dates :
        Range(get_available_slots(db, date, h))
            = C23_Expected(date, db.households[h].priority_level)

C23_Step ==
    \A p \in DOMAIN hs :
        Lists(p) =>
            /\ \E date \in Dates :
                  Range(hs'[p].available_slots)
                      = C23_Expected(date,
                            db.households[current_user[p]].priority_level)
            /\ UNCHANGED <<db, lock, tx, current_user, cs>>

\* C23: get_available_slots for a date and a household returns exactly the
\* slots of that date that have status available, fewer bookings than
\* places, an active source, and a source rule that is "all" or names the
\* household's priority level (so a low household gets no slot of a source
\* with the rule "high,normal"); and the listing changes nothing stored.
C23_Listing == [](C23_Returns) /\ [][C23_Step]_vars

\* A low household has been shown the slot of the open source and not the
\* free slot of the active source whose rule is "high,normal".
C23_Witness ==
    \E p \in DOMAIN hs :
        /\ hs[p].pc = "confirm"
        /\ db.households[current_user[p]].priority_level = "low"
        /\ Len(hs[p].available_slots) = 1
        /\ \E i \in Ids(db.time_slots) :
              /\ i \notin Range(hs[p].available_slots)
              /\ db.time_slots[i].current_bookings = 0
              /\ db.water_sources[db.time_slots[i].source_id].status = "active"
              /\ db.water_sources[db.time_slots[i].source_id].priority_access
                     = {"high", "normal"}

SourceNameOf(i) == db.water_sources[db.time_slots[i].source_id].source_name

\* A sequence of slot ids is in the order of source name, then start time.
C24_Sorted(seq) ==
    \A a, b \in Ids(seq) :
        a < b =>
            \/ NamePlace(SourceNameOf(seq[a])) < NamePlace(SourceNameOf(seq[b]))
            \/ /\ SourceNameOf(seq[a]) = SourceNameOf(seq[b])
               /\ db.time_slots[seq[a]].start_time
                      <= db.time_slots[seq[b]].start_time

C24_Returns ==
    \A h \in Households, date \in Dates :
        C24_Sorted(get_available_slots(db, date, h))

C24_Step ==
    \A p \in DOMAIN hs :
        Lists(p) =>
            /\ C24_Sorted(hs'[p].available_slots)
            /\ \E date \in Dates :
                  hs'[p].available_slots
                      = get_available_slots(db, date, current_user[p])

LockedAttempt(p) ==
    /\ hs[p].pc = "confirm"
    /\ lock # NoSession
    /\ hs'[p] # hs[p]

C25_Step ==
    \A p \in DOMAIN hs :
        LockedAttempt(p) =>
            /\ db' = db
            /\ hs[p].attempt < max_attempts =>
                   /\ hs'[p].pc = "confirm"
                   /\ hs'[p].attempt = hs[p].attempt + 1
            /\ hs[p].attempt >= max_attempts =>
                   /\ hs'[p].pc = "menu"
                   /\ hs'[p].result = "locked"

\* C25: create_booking always ends.  While the database stays locked it
\* makes at most max_attempts attempts, each leaving the store as it was,
\* and the last one returns a failure; a call that has begun returns.
C25_CreateEnds ==
    /\ [](\A p \in DOMAIN hs : hs[p].attempt <= max_attempts)
    /\ [][C25_Step]_vars
    /\ \A p \in HouseholdSessions :
          (hs[p].pc = "confirm") ~> (hs[p].pc = "menu")

\* A call has given up after its last attempt while a review that failed
\* still holds the write lock; the household has no booking.
C25_Witness ==
    \E p \in DOMAIN hs :
        /\ hs[p].pc = "menu"
        /\ hs[p].result = "locked"
        /\ lock # NoSession
        /\ RowsOf(db, current_user[p], hs[p].slot_id) = {}

\* Session p makes an attempt of create_booking that gets the write lock.
FreeAttempt(p) ==
    /\ hs[p].pc = "confirm"
    /\ lock = NoSession
    /\ hs'[p] # hs[p]

C26_Step ==
    \A p \in DOMAIN hs :
        /\ (FreeAttempt(p)
               /\ BookingKeyTaken(db.bookings, current_user[p], hs[p].slot_id))
            => /\ hs'[p].pc = "menu"
               /\ hs'[p].result = "duplicate"
               /\ db' = db
        /\ (LockedAttempt(p) /\ hs[p].attempt < max_attempts)
            => /\ hs'[p].pc = "confirm"
               /\ hs'[p].attempt = hs[p].attempt + 1
               /\ hs'[p].slot_id = hs[p].slot_id
               /\ db' = db
               /\ tx' = tx /\ lock' = lock

\* C26: only "database is locked" is tried again.  An attempt that meets
\* the UNIQUE(household_id, slot_id) violation returns a failure at once,
\* whichever attempt it is, and creates no booking; a locked first or
\* second attempt leaves nothing behind and is followed by another attempt
\* for the same slot.
C26_RetryOnlyLocked == [][C26_Step]_vars

\* A call has met the booking the household's other session made for the
\* slot: it returned the failure and the household has that one booking.
C26_Witness ==
    \E p \in DOMAIN hs :
        /\ hs[p].pc = "menu"
        /\ hs[p].result = "duplicate"
        /\ Cardinality(RowsOf(db, current_user[p], hs[p].slot_id)) = 1

\* C27: what create_booking returns tells its caller whether the call gave
\* up after the database stayed locked or met a permanent failure: a call
\* that ended the first way and a call that ended the second way have
\* returned different values.
C27_ReturnTellsCause ==
    \A p, q \in DOMAIN hs :
        (/\ hs[p].pc = "menu" /\ hs[p].result = "locked"
         /\ hs[q].pc = "menu" /\ hs[q].result \in {"duplicate", "integrity"})
        => hs[p].returned # hs[q].returned

\* -------------------------------------------------------- validation property

C28_Step ==
    \A p \in DOMAIN hs :
        (/\ hs[p].pc = "confirm"
         /\ hs[p].water_amount <= 0
         /\ hs'[p] # hs[p])
        => /\ hs'[p].pc = "menu"
           /\ hs'[p].result = "integrity"
           /\ db' = db

\* C28: create_booking for a water amount that is not positive is refused
\* as invalid before anything is tried on the database: whether or not the
\* write lock is free, its first step returns the failure, it is never
\* tried again, and no booking is created.
C28_RejectsNonPositive == [][C28_Step]_vars

\* ------------------------------------------------------------- end to end

\* 200 liters at the default price: 10 cents.
C30_Charge == 200 * DefaultPrice

\* The household's only booking is one for 200 liters on the first slot,
\* paid by mobile money, and it has not been denied.
C30_Case ==
    /\ Len(db.bookings) = 1
    /\ db.bookings[1].household_id = "h1"
    /\ db.bookings[1].slot_id = 1
    /\ db.bookings[1].water_amount_collected = 200
    /\ db.bookings[1].payment_method = "mobile"
    /\ ~db.audit[1].denied

C30_State ==
    /\ Len(db.time_slots) \in {0, 3}
    /\ \A k \in Ids(db.time_slots) :
          /\ db.time_slots[k].start_time = OpeningTime + (k - 1) * SlotMinutes
          /\ db.time_slots[k].end_time = OpeningTime + k * SlotMinutes
          /\ db.time_slots[k].max_households = ScenarioCapacity
    /\ C30_Case =>
          /\ db.bookings[1].amount_charged = C30_Charge
          /\ db.audit[1].approvals = 0 =>
                /\ db.bookings[1].booking_status = "pending"
                /\ db.time_slots[1].current_bookings = 0
                /\ db.households["h1"].balance = InitBalance
                /\ db.receipts = {}
          /\ db.audit[1].approvals = 1 =>
                /\ db.bookings[1].booking_status = "approved"
                /\ db.time_slots[1].current_bookings = 1
                /\ db.households["h1"].balance = InitBalance - C30_Charge
                /\ Cardinality(db.receipts) = 1
                /\ \A r \in db.receipts :
                      r.booking_id = 1 /\ r.amount = C30_Charge

C30_Step ==
    \A c \in DOMAIN cs :
        (Generates(c) /\ db.time_slots = <<>> /\ cs'[c].error = "none")
            => cs'[c].slots_created = 3 /\ Len(db'.time_slots) = 3

\* C30: end to end.  For a source open three hours with 5 places an hour at
\* 5 cents per 100 liters, generation creates 3 slots.  A household with
\* 50.00 that asks for 200 liters on the first slot, paying by mobile money,
\* gets a pending booking charged 10 cents, with the slot and its balance
\* as they were; after one approval the booking is approved, the first slot
\* has 1 booking, the balance is 49.90 and there is exactly one receipt.
C30_EndToEnd == [](C30_State) /\ [][C30_Step]_vars

\* The booking has been approved once.
C30_Witness ==
    /\ C30_Case
    /\ db.audit[1].approvals = 1
    /\ db.bookings[1].booking_status = "approved"
    /\ db.time_slots[1].current_bookings = 1
    /\ db.households["h1"].balance = InitBalance - C30_Charge
    /\ Cardinality(db.receipts) = 1

\* ------------------------------------------------------------ deposit property

C29_Step ==
    /\ db'.deposits # db.deposits =>
          \E p \in DOMAIN hs :
              /\ hs'[p].funds = "added"
              /\ hs'[p].amount > 0
              /\ db'.households[current_user[p]].balance
                     = db.households[current_user[p]].balance + hs'[p].amount
              /\ \A h \in Households \ {current_user[p]} :
                     db'.households[h] = db.households[h]
              /\ db'.bookings = db.bookings
              /\ db'.time_slots = db.time_slots
              /\ db'.receipts = db.receipts
    /\ \A p \in DOMAIN hs :
          (hs'[p] # hs[p] /\ hs'[p].funds # "none") =>
              /\ hs'[p].amount <= 0 =>
                     hs'[p].funds = "rejected" /\ db' = db
              /\ (hs'[p].amount > 0 /\ lock = NoSession) =>
                     /\ hs'[p].funds = "added"
                     /\ db'.households[current_user[p]].balance
                            = db.households[current_user[p]].balance
                                  + hs'[p].amount

C31_State ==
    \A b \in Ids(db.bookings) :
        db.audit[b].approvals = 0 => ~HasReceipt(db, b)

C31_Step ==
    /\ \A p \in DOMAIN hs :
          (CreateReturns(p) /\ hs'[p].result = "ok") =>
              LET b == Len(db'.bookings)
              IN  /\ b = Len(db.bookings) + 1
                  /\ db'.bookings[b].receipt_number = ReceiptNumber(b)
                  /\ db'.receipts = db.receipts
                  /\ ~HasReceipt(db', b)
    /\ \A r \in db'.receipts \ db.receipts :
          /\ db'.audit[r.booking_id].approvals
                 = db.audit[r.booking_id].approvals + 1
          /\ db'.bookings[r.booking_id].booking_status = "approved"
          /\ r.receipt_number = db.bookings[r.booking_id].receipt_number

\* C31: a create_booking that succeeds leaves the booking with its receipt
\* number and no row in receipts; a receipt for a booking first appears in
\* the step that approves it, under the number the booking carries, so a
\* booking that was never approved (pending, denied or cancelled) has none.
C31_ReceiptOnApproval == [](C31_State) /\ [][C31_Step]_vars

\* One booking was cancelled or denied without an approval and has no
\* receipt, while another, approved, has its receipt.
C31_Witness ==
    \E a, b \in Ids(db.bookings) :
        /\ db.audit[a].approvals = 0
        /\ db.bookings[a].booking_status \in {"cancelled", "denied"}
        /\ ~HasReceipt(db, a)
        /\ db.audit[b].approvals = 1
        /\ HasReceipt(db, b)

\* --------------------------------------------------- notification property

\* Coordinator c's review commits in this step.
ReviewCommits(c) == cs[c].pc = "review" /\ cs'[c].pc = "menu"

\* Booking b is decided in this step: an approval or a denial is written.
Decided(b) ==
    \/ db'.audit[b].approvals # db.audit[b].approvals
    \/ db'.audit[b].denied # db.audit[b].denied
    \/ db'.bookings[b].booking_status # db.bookings[b].booking_status
         /\ db'.bookings[b].booking_status \in {"approved", "denied"}

C32_Step ==
    /\ \A c \in DOMAIN cs :
          ReviewCommits(c) =>
              \E b \in Ids(db.bookings) :
                  /\ db'.notifications =
                         [db.notifications EXCEPT
                             ![UserOf(db.bookings[b].household_id)] = @ + 1]
                  /\ \A a \in Ids(db.bookings) \ {b} : ~Decided(a)
    /\ \A b \in Ids(db.bookings) :
          Decided(b) =>
              db'.notifications =
                  [db.notifications EXCEPT
                      ![UserOf(db.bookings[b].household_id)] = @ + 1]
    /\ db'.notifications # db.notifications =>
          \E c \in DOMAIN cs : ReviewCommits(c)
    /\ \A c \in DOMAIN cs :
          (cs'[c].pc = "failed" \/ cs[c].pc = "failed") =>
              db'.notifications = db.notifications

\* C32: a review that commits writes, in the step that decides the booking,
\* exactly one notification, for the user of the booking's household; a
\* booking is decided in no step without it; and a review that fails, with
\* the rollback that follows it, writes none.
C32_NotifyOnDecision == [][C32_Step]_vars

\* An approval has been committed with its one notification, and a later
\* review has failed and added none.
C32_Witness ==
    \E c \in DOMAIN cs :
        /\ cs[c].pc = "failed"
        /\ SumOver(Households, db.notifications) = 1
        /\ \E b \in Ids(db.bookings) :
              /\ db.audit[b].approvals = 1
              /\ db.notifications[UserOf(db.bookings[b].household_id)] = 1

\* ------------------------------------------------------ capacity properties

\* The bookings of a slot that are approved now.
ApprovedOn(d, slot_id) ==
    {b \in Ids(d.bookings) :
        /\ d.bookings[b].slot_id = slot_id
        /\ d.bookings[b].booking_status = "approved"}

\* C33 (as claimed): every slot's current_bookings is the number of its
\* bookings that are approved now, so that cancelling or denying an
\* approved booking gives its place back.
C33_CountIsApproved ==
    \A i \in Ids(db.time_slots) :
        db.time_slots[i].current_bookings = Cardinality(ApprovedOn(db, i))

\* C34: whatever the sessions do, no slot has more approved bookings than
\* max_households.
C34_ApprovedWithinCapacity ==
    \A i \in Ids(db.time_slots) :
        Cardinality(ApprovedOn(db, i)) <= db.time_slots[i].max_households

\* A slot has as many approved bookings as places, and the approval of one
\* more booking of that slot has just been refused.
C34_Witness ==
    \E i \in Ids(db.time_slots), c \in DOMAIN cs :
        /\ Cardinality(ApprovedOn(db, i)) = db.time_slots[i].max_households
        /\ cs[c].pc = "failed"
        /\ cs[c].error = "IntegrityError"
        /\ \E b \in Ids(db.bookings) :
              /\ db.bookings[b].slot_id = i
              /\ db.bookings[b].booking_status = "pending"

\* -------------------------------------------------------- ledger properties

\* The sum of the amounts of a set of receipts.
RECURSIVE ReceiptSum(_)
ReceiptSum(R) ==
    IF R = {} THEN 0
    ELSE LET r == CHOOSE x \in R : TRUE IN r.amount + ReceiptSum(R \ {r})

\* C35 (as claimed): every household's balance is the balance it registered
\* with, plus what it has added, minus the amounts of the receipts issued
\* for its bookings paid by mobile money.
C35_Conserved ==
    \A h \in Households :
        db.households[h].balance
            = InitBalance + db.households[h].deposited
                - ReceiptSum({r \in db.receipts :
                                 /\ r.household_id = h
                                 /\ r.payment_method = "mobile"})

\* --------------------------------------------------- concurrency properties

\* C36 (as claimed): the UPDATE of cancel_booking writes cancelled only if
\* the booking is pending or approved when it runs: a booking that a
\* coordinator has denied since cancel_booking read its status is left as
\* the coordinator decided.
C36_CancelKeepsDecision ==
    [][\A p \in DOMAIN hs :
          (/\ hs[p].pc = "cancel" /\ hs'[p].pc = "menu"
           /\ hs[p].booking_id \in Ids(db.bookings)
           /\ db.bookings[hs[p].booking_id].booking_status
                  \notin {"pending", "approved"})
          => db'.bookings[hs[p].booking_id].booking_status
                 = db.bookings[hs[p].booking_id].booking_status]_vars

\* C37 (as claimed): an update_household in which the coordinator keeps the
\* balance leaves the household's balance as it is in the store when the
\* UPDATE runs, whatever was added or charged since the row was read.
C37_KeepsBalance ==
    [][\A c \in DOMAIN cs :
          update_household_of(c, TRUE)
          => db'.households[cs[c].household_id].balance
                 = db.households[cs[c].household_id].balance]_vars

\* C38 (as claimed): no session waits at a prompt with the write lock held
\* (in particular a review that has failed has given it back), and no
\* create_booking gives up because the database stayed locked.
C38_NoLockAtPrompt ==
    /\ lock = NoSession
    /\ \A p \in DOMAIN hs : hs[p].result # "locked"

\* C39 (as claimed): two different slots of one source on one date never
\* overlap in time, also after generate_time_slots has run again for a
\* source whose operating hours update_water_source changed.
C39_NoOverlap ==
    \A i, j \in Ids(db.time_slots) :
        (/\ i # j
         /\ db.time_slots[i].source_id = db.time_slots[j].source_id
         /\ db.time_slots[i].slot_date = db.time_slots[j].slot_date)
        => \/ db.time_slots[i].end_time <= db.time_slots[j].start_time
           \/ db.time_slots[j].end_time <= db.time_slots[i].start_time

=============================================================================
